---------------------------- MODULE Spec2Model ----------------------------
(***************************************************************************)
(* A model of factory (imaravin/factory): the single-instance daemon       *)
(* supervisor (StartDaemon / StopDaemon / ShowStatus), the poll loop with  *)
(* its processed-issue ledger (runDaemon / poll / loadProcessed /          *)
(* saveProcessed / ClearProcessed) and the ProcessIssue pipeline.          *)
(*                                                                         *)
(* Spec            the daemon system with its ledger: one operator's       *)
(*                 `factory start` / stop / clear, daemon children, the    *)
(*                 poll loop, the pid file, the ledger file, signals and   *)
(*                 crashes.  ProcessIssue is one call that returns one of  *)
(*                 its terminal Results.                                   *)
(* SpecSupervisor  the supervisor alone: overlapping `factory start`       *)
(*                 invocations, stop, status, crashes and pid reuse.       *)
(* SpecPipeline    one ProcessIssue call, collaborator call by             *)
(*                 collaborator call.                                      *)
(* SpecRun         one running daemon whose every ProcessIssue call is     *)
(*                 followed collaborator call by collaborator call up to   *)
(*                 the record in the ledger file.                          *)
(* SpecTrigger     `factory trigger KEY` beside one running daemon.        *)
(* SpecStatus      Spec with `factory status` run at any moment.           *)
(* SpecTriggerRun  one `factory trigger KEY` command from start to exit.   *)
(* SpecDaemon      one daemon left alone, with fairness of its steps.      *)
(* SpecStop        Spec with fairness of the delivery of SIGTERM.          *)
(* SpecDuplicates  one daemon whose tracker may list a key twice.          *)
(***************************************************************************)
EXTENDS Integers, Sequences, FiniteSets, TLC

\* ------------------------------------------------------------- bounds
MaxPid == 2
MaxKeys == 2
MaxList == 2
MaxLaunch == 2
MaxUrl == 1

PIDs == 1..MaxPid
Keys == 1..MaxKeys
Launchers == 1..MaxLaunch
Urls == 1..MaxUrl

VARIABLES
    \* --- files of the configuration directory
    pidFile,      \* daemon.pid: 0 when the file does not exist, else the pid in it
    ledgerFile,   \* processed.json: [state, data]
    \* --- operating system
    alive,        \* pids of live processes
    foreign,      \* live pids that belong to processes other than the daemon
    nextPid,      \* pid the next spawned child gets
    sigterm,      \* pids with a SIGTERM sent and not yet acted on
    \* --- `factory start` invocations (launchers)
    lpc,          \* position of each `factory start` process in StartDaemon
    lchild,       \* pid of the child the launcher spawned (cmd.Process.Pid)
    \* --- daemon children (FACTORY_DAEMON=1)
    dpc,          \* position of each child
    processed,    \* the package-level map `processed` of each child
    newIssues,    \* newIssues of the tick still to be processed (head: current)
    \* --- history
    tickStart,    \* keys of `processed` when the child's current tick started
    everInvoked,  \* keys ProcessIssue has been called for
    cleared,      \* TRUE once ClearProcessed has run
    written,      \* keys whose record a daemon's saveProcessed wrote, not cleared since
    sawWritten,   \* per child: `written` when it ran loadProcessed, minus later clears
    lastOp,       \* outcome of the last stop / status / clear command
    \* --- one ProcessIssue call (SpecPipeline)
    cfg,          \* [UseACLI, AutoTransition]
    ppc,          \* position in ProcessIssue
    issue,        \* the Issue GetIssue returned
    calls,        \* collaborator calls made so far, in order: [op, ok, out]
    result,       \* the Result under construction
    claude,       \* the `claude` command runClaude started: none, exited, signalled
    waiter        \* runClaude's goroutine around cmd.Run: none, running, done, blocked

sysVars == <<pidFile, ledgerFile, alive, foreign, nextPid, sigterm, lpc, lchild,
             dpc, processed, newIssues, tickStart, everInvoked, cleared,
             written, sawWritten, lastOp>>
pipeVars == <<cfg, ppc, issue, calls, result, claude, waiter>>
vars == <<sysVars, pipeVars>>

\* ------------------------------------------------------------- Result
NoMap == <<>>

\* engine.go: Result{IssueKey, Status: "started"}; PRUrl 0 and Error <<>> are "".
NewResult(issueKey) ==
    [IssueKey |-> issueKey, Status |-> "started", PRUrl |-> 0, Error |-> <<>>]

\* A faulty fail() that sets the error text and leaves the status as it is.
failKeepsStatus(r, stage, err) == [r EXCEPT !.Error = <<stage, err>>]

\* engine.go fail(): Status "failed", Error "<stage>: <err>".
fail(r, stage, err) ==
    [r EXCEPT !.Status = "failed", !.Error = <<stage, err>>]


\* ------------------------------------------------------------- Issue
\* Issue.Type / Issue.Status values the tracker may hand back ("" when the
\* field could not be read).
Types == {"Bug", "task", "Epic", ""}
Statuses == {"Open", "Done", ""}

\* strings.ToLower on the strings above.
ToLower(s) ==
    CASE s = "Bug" -> "bug"
      [] s = "Epic" -> "epic"
      [] s = "Open" -> "open"
      [] s = "Done" -> "done"
      [] OTHER -> s

IsValidType(i) ==
    LET t == ToLower(i.Type)
    IN  t = "bug" \/ t = "task" \/ t = "story" \/ t = "sub-task"

\* A faulty IsClosed that takes no status for closed.
IsClosedNever(i) == FALSE

IsClosed(i) ==
    LET s == ToLower(i.Status)
    IN  s = "done" \/ s = "closed" \/ s = "resolved" \/ s = "cancelled"

\* ------------------------------------------------------ ProcessIssue
\* One collaborator call in the log: the operation, whether it returned
\* without error, and its output (git status: 1 when the output is not
\* empty; CreatePR: the URL; claude: 1 when the timer fired; 0 otherwise).
Call(op, ok, out) == [op |-> op, ok |-> ok, out |-> out]

Log(cs) == calls' = calls \o cs

\* return fail(result, stage, err)
Fail(stage, text, arg) ==
    /\ result' = fail(result, stage, <<text, arg>>)
    /\ ppc' = "done"

\* main.go trigger / daemon.go poll: ProcessIssue(cfg, key) is entered.
\* engine.go:19
PBegin(key) ==
    /\ ppc = "idle"
    /\ result' = NewResult(key)
    /\ ppc' = "fetch"
    /\ UNCHANGED <<claude, waiter, cfg, issue, calls>>

\* engine.go:27-30 with jira.go GetIssue: REST returns the request's error;
\* ACLI reads each field with an execJira call of its own (the reads of type
\* and status are followed here), leaves the field empty when the call fails
\* and returns no error.
PFetch ==
    /\ ppc = "fetch"
    /\ \E reach \in BOOLEAN, reach2 \in BOOLEAN, t \in Types, s \in Statuses :
          IF cfg.UseACLI
          THEN /\ Log(<<Call("execJira", reach, 0), Call("execJira", reach2, 0)>>)
               /\ issue' = [Type |-> IF reach THEN t ELSE "",
                            Status |-> IF reach2 THEN s ELSE ""]
               /\ ppc' = "validate"
               /\ UNCHANGED result
          ELSE /\ Log(<<Call("jiraRequest", reach, 0)>>)
               /\ IF reach
                  THEN /\ issue' = [Type |-> t, Status |-> s]
                       /\ ppc' = "validate"
                       /\ UNCHANGED result
                  ELSE /\ Fail("fetch", "jira API error", "")
                       /\ UNCHANGED issue
    /\ UNCHANGED <<claude, waiter, cfg>>

\* engine.go:32-37
PValidate ==
    /\ ppc = "validate"
    /\ IF ~IsValidType(issue)
       THEN Fail("validate", "invalid type", issue.Type)
       ELSE IF IsClosed(issue)
            THEN Fail("validate", "issue is closed", issue.Status)
            ELSE ppc' = "git" /\ UNCHANGED result
    /\ UNCHANGED <<claude, waiter, cfg, issue, calls>>

\* engine.go:42-45 with git.go Init: MkdirAll, clone when .git is missing,
\* two `git config` calls whose errors are dropped.
PGitInit ==
    /\ ppc = "git"
    /\ \E mk \in BOOLEAN, hasRepo \in BOOLEAN, cl \in BOOLEAN, c1 \in BOOLEAN, c2 \in BOOLEAN :
          LET conf == <<Call("git config", c1, 0), Call("git config", c2, 0)>>
          IN  IF ~mk
              THEN Log(<<Call("mkdir", FALSE, 0)>>) /\ Fail("git", "mkdir", "")
              ELSE IF hasRepo
                   THEN /\ Log(<<Call("mkdir", TRUE, 0)>> \o conf)
                        /\ ppc' = "branch" /\ UNCHANGED result
                   ELSE IF ~cl
                        THEN /\ Log(<<Call("mkdir", TRUE, 0), Call("git clone", FALSE, 0)>>)
                             /\ Fail("git", "clone failed", "")
                        ELSE /\ Log(<<Call("mkdir", TRUE, 0), Call("git clone", TRUE, 0)>> \o conf)
                             /\ ppc' = "branch" /\ UNCHANGED result
    /\ UNCHANGED <<claude, waiter, cfg, issue>>

\* engine.go:47-50 with git.go CreateBranch and Pull: checkout and pull of
\* the default branch may fail the stage; `git branch -a` and the checkout
\* of the feature branch drop their errors.
PCreateBranch ==
    /\ ppc = "branch"
    /\ \E co \in BOOLEAN, pl \in BOOLEAN, ls \in BOOLEAN, exists \in BOOLEAN, cb \in BOOLEAN :
          IF ~co
          THEN Log(<<Call("git checkout default", FALSE, 0)>>) /\ Fail("branch", "git checkout", "")
          ELSE IF ~pl
               THEN /\ Log(<<Call("git checkout default", TRUE, 0), Call("git pull", FALSE, 0)>>)
                    /\ Fail("branch", "git pull", "")
               ELSE /\ Log(<<Call("git checkout default", TRUE, 0), Call("git pull", TRUE, 0),
                             Call("git branch -a", ls, 0),
                             IF ls /\ exists THEN Call("git checkout", cb, 0)
                                             ELSE Call("git checkout -b", cb, 0)>>)
                    /\ ppc' = "claude" /\ UNCHANGED result
    /\ UNCHANGED <<claude, waiter, cfg, issue>>

\* engine.go:55-57 with runClaude: cmd.Run returns first in the goroutine,
\* whose send on `done` runClaude receives (the command has been waited for,
\* ok or not), or the 10 minute timer fires first:
\* cmd.Process.Kill sends SIGKILL and runClaude returns the timeout error at
\* once.
PClaude ==
    /\ ppc = "claude"
    /\ \E o \in {"ok", "err", "timeout"} :
          /\ Log(<<Call("claude", o = "ok", IF o = "timeout" THEN 1 ELSE 0)>>)
          /\ claude' = IF o = "timeout" THEN "signalled" ELSE "exited"
          /\ waiter' = IF o = "timeout" THEN "running" ELSE "done"
          /\ IF o = "ok" THEN ppc' = "status" /\ UNCHANGED result
             ELSE IF o = "err" THEN Fail("claude", "exit status", "")
             ELSE Fail("claude", "timeout after 10 minutes", "")
    /\ UNCHANGED <<cfg, issue>>

\* The kernel ends a command that cmd.Process.Kill signalled; nothing in
\* runClaude waits for this.
ClaudeDies ==
    /\ claude = "signalled"
    /\ claude' = "exited"
    /\ UNCHANGED <<cfg, ppc, issue, calls, result, waiter>>

\* engine.go:149-150 after a timeout: cmd.Run returns in the goroutine once
\* the command has ended, and the goroutine sends on `done`, a channel without
\* buffer that runClaude, which has returned, will never receive from.
WaiterSends ==
    /\ waiter = "running" /\ claude = "exited"
    /\ waiter' = "blocked"
    /\ UNCHANGED <<cfg, ppc, issue, calls, result, claude>>

\* A faulty change test that goes on to commit and push whatever
\* `git status` printed.
PHasChangesAlwaysPush ==
    /\ ppc = "status"
    /\ \E st \in {"clean", "dirty", "err"} :
          Log(<<Call("git status", st # "err", IF st = "dirty" THEN 1 ELSE 0)>>)
    /\ ppc' = "push"
    /\ UNCHANGED <<claude, waiter, cfg, issue, result>>

\* engine.go:60, 84-90 with git.go HasChanges: out != "" where out is "" when
\* `git status --porcelain` fails.
PHasChanges ==
    /\ ppc = "status"
    /\ \E st \in {"clean", "dirty", "err"} :
          LET out == IF st = "dirty" THEN 1 ELSE 0
          IN  /\ Log(<<Call("git status", st # "err", out)>>)
              /\ IF out # 0
                 THEN ppc' = "push" /\ UNCHANGED result
                 ELSE /\ result' = [result EXCEPT !.Status = "completed"]
                      /\ ppc' = "done"
    /\ UNCHANGED <<claude, waiter, cfg, issue>>

\* engine.go:63-65 with git.go CommitAndPush: add, commit, push; the first
\* error is returned.
PCommitAndPush ==
    /\ ppc = "push"
    /\ \E a \in BOOLEAN, c \in BOOLEAN, p \in BOOLEAN :
          IF ~a
          THEN Log(<<Call("git add", FALSE, 0)>>) /\ Fail("push", "git add", "")
          ELSE IF ~c
               THEN /\ Log(<<Call("git add", TRUE, 0), Call("git commit", FALSE, 0)>>)
                    /\ Fail("push", "git commit", "")
               ELSE IF ~p
                    THEN /\ Log(<<Call("git add", TRUE, 0), Call("git commit", TRUE, 0),
                                  Call("git push", FALSE, 0)>>)
                         /\ Fail("push", "git push", "")
                    ELSE /\ Log(<<Call("git add", TRUE, 0), Call("git commit", TRUE, 0),
                                  Call("git push", TRUE, 0)>>)
                         /\ ppc' = "pr" /\ UNCHANGED result
    /\ UNCHANGED <<claude, waiter, cfg, issue>>

\* engine.go:71-75: CreatePR returns (url, err).
PCreatePR ==
    /\ ppc = "pr"
    /\ \/ /\ Log(<<Call("CreatePR", FALSE, 0)>>)
          /\ Fail("pr", "create pr", "")
       \/ \E u \in Urls :
             /\ Log(<<Call("CreatePR", TRUE, u)>>)
             /\ result' = [result EXCEPT !.PRUrl = u]
             /\ ppc' = "report"
    /\ UNCHANGED <<claude, waiter, cfg, issue>>

\* A faulty report-back stage that fails the run when AddComment returns an
\* error.
PReportFailsOnError ==
    /\ ppc = "report"
    /\ \E ac \in BOOLEAN, tr \in BOOLEAN :
          /\ Log(<<Call("AddComment", ac, 0)>> \o
                 (IF cfg.AutoTransition THEN <<Call("Transition", tr, 0)>> ELSE <<>>))
          /\ IF ac THEN result' = [result EXCEPT !.Status = "completed"] /\ ppc' = "done"
             ELSE Fail("comment", "add comment", "")
    /\ UNCHANGED <<claude, waiter, cfg, issue>>

\* engine.go:80-90: AddComment, Transition when cfg.Poll.AutoTransition; the
\* returned errors are dropped.
PReport ==
    /\ ppc = "report"
    /\ \E ac \in BOOLEAN, tr \in BOOLEAN :
          Log(<<Call("AddComment", ac, 0)>> \o
              (IF cfg.AutoTransition THEN <<Call("Transition", tr, 0)>> ELSE <<>>))
    /\ result' = [result EXCEPT !.Status = "completed"]
    /\ ppc' = "done"
    /\ UNCHANGED <<claude, waiter, cfg, issue>>

\* The Results ProcessIssue can return for a key.
FailCauses ==
    {<<"fetch", "jira API error", "">>, <<"git", "mkdir", "">>,
     <<"git", "clone failed", "">>, <<"branch", "git checkout", "">>,
     <<"branch", "git pull", "">>, <<"claude", "exit status", "">>,
     <<"claude", "timeout after 10 minutes", "">>, <<"push", "git add", "">>,
     <<"push", "git commit", "">>, <<"push", "git push", "">>,
     <<"pr", "create pr", "">>}
    \cup {<<"validate", "invalid type", t>> : t \in Types}
    \cup {<<"validate", "issue is closed", s>> : s \in Statuses}

TerminalResults(key) ==
    {[NewResult(key) EXCEPT !.Status = "completed", !.PRUrl = u] : u \in {0} \cup Urls}
    \cup {fail(NewResult(key), e[1], <<e[2], e[3]>>) : e \in FailCauses}

\* The Results a daemon's ProcessIssue call returns in Spec: every completed
\* Result, and the fetch failure standing for the failed ones.
DaemonResults(key) ==
    {r \in TerminalResults(key) :
        r.Status = "completed" \/ (r.Status = "failed" /\ r.Error[1] = "fetch")}

\* ------------------------------------------------------------- ledger
NoFile == [state |-> "nofile", data |-> NoMap]
Truncated == [state |-> "trunc", data |-> NoMap]
FileOf(m) == [state |-> "ok", data |-> m]

\* daemon.go:23-28: a missing or unparsable file leaves the map as it is;
\* json.Unmarshal adds the file's entries to the map.
loadProcessed(mem) ==
    IF ledgerFile.state = "ok"
    THEN [k \in (DOMAIN mem) \cup (DOMAIN ledgerFile.data) |->
             IF k \in DOMAIN ledgerFile.data THEN ledgerFile.data[k] ELSE mem[k]]
    ELSE mem

\* A faulty record that leaves the PR URL out.
RecordNoUrl(mem, key, r) ==
    [k \in (DOMAIN mem) \cup {key} |->
        IF k = key THEN [Status |-> r.Status, PRUrl |-> 0, Error |-> r.Error]
        ELSE mem[k]]

\* daemon.go:140-145: processed[issue.Key] = ProcessedIssue{...}
Record(mem, key, r) ==
    [k \in (DOMAIN mem) \cup {key} |->
        IF k = key THEN [Status |-> r.Status, PRUrl |-> r.PRUrl, Error |-> r.Error]
        ELSE mem[k]]

\* delete(processed, issueKey)
Delete(mem, key) == [k \in (DOMAIN mem) \ {key} |-> mem[k]]

\* ------------------------------------------------------- supervisor
\* daemon.go:173-180: 0 when the pid file cannot be read.
GetDaemonPid == pidFile

\* A faulty isRunning that finds no process.
isRunningNever(pid) == FALSE

\* daemon.go:182-190: the null signal reaches a live process.
isRunning(pid) == pid \in alive

\* daemon.go:38-42
AlreadyRunning == GetDaemonPid > 0 /\ isRunning(GetDaemonPid)

Live == {"start", "poll", "loop", "inflight", "save", "write", "stopping"}
Polling == {"poll", "loop", "inflight", "save", "write"}
Exited == {"dead", "refusedSelf", "refusedOther"}

At(p, pos) == dpc[p] = pos

\* What a child holds in memory is dropped when it ends or will not run again.
Forget(p) ==
    /\ processed' = [processed EXCEPT ![p] = NoMap]
    /\ newIssues' = [newIssues EXCEPT ![p] = <<>>]
    /\ tickStart' = [tickStart EXCEPT ![p] = {}]
    /\ sawWritten' = [sawWritten EXCEPT ![p] = {}]

\* A process ends: the operating system state and the state it held.
Terminate(p, how) ==
    /\ alive' = alive \ {p}
    /\ foreign' = foreign \ {p}
    /\ sigterm' = sigterm \ {p}
    /\ dpc' = IF p \in foreign THEN dpc ELSE [dpc EXCEPT ![p] = how]
    /\ Forget(p)

\* `factory start` without FACTORY_DAEMON: daemon.go:38-42.
StartCheck(l) ==
    /\ lpc[l] = "idle"
    /\ lpc' = [lpc EXCEPT ![l] = IF AlreadyRunning THEN "errRunning" ELSE "spawn"]
    /\ UNCHANGED <<pidFile, ledgerFile, alive, foreign, nextPid, sigterm, lchild,
                   dpc, processed, newIssues, tickStart, everInvoked, cleared,
                   written, sawWritten, lastOp, pipeVars>>

\* daemon.go:47-60: cmd.Start() spawns the child with FACTORY_DAEMON=1, or fails.
StartSpawn(l) ==
    /\ lpc[l] = "spawn"
    /\ \/ /\ nextPid \in PIDs
          /\ alive' = alive \cup {nextPid}
          /\ dpc' = [dpc EXCEPT ![nextPid] = "start"]
          /\ lchild' = [lchild EXCEPT ![l] = nextPid]
          /\ nextPid' = nextPid + 1
          /\ lpc' = [lpc EXCEPT ![l] = "write"]
       \/ /\ lpc' = [lpc EXCEPT ![l] = "errSpawn"]
          /\ UNCHANGED <<alive, dpc, lchild, nextPid>>
    /\ UNCHANGED <<pidFile, ledgerFile, foreign, sigterm, processed, newIssues, tickStart, everInvoked, cleared, written, sawWritten,
                   lastOp, pipeVars>>

\* daemon.go:63-67: the pid file is written, StartDaemon returns nil.
StartWrite(l) ==
    /\ lpc[l] = "write"
    /\ pidFile' = lchild[l]
    /\ lpc' = [lpc EXCEPT ![l] = "ok"]
    /\ UNCHANGED <<ledgerFile, alive, foreign, nextPid, sigterm, lchild, dpc,
                   processed, newIssues, tickStart, everInvoked, cleared,
                   written, sawWritten, lastOp, pipeVars>>

\* The launcher process exits (main.go:30-32); a later `factory start` is a
\* new invocation.
StartExit(l) ==
    /\ lpc[l] \in {"ok", "errRunning", "errSpawn"}
    /\ lpc' = [lpc EXCEPT ![l] = "idle"]
    /\ lchild' = [lchild EXCEPT ![l] = 0]
    /\ UNCHANGED <<pidFile, ledgerFile, alive, foreign, nextPid, sigterm, dpc,
                   processed, newIssues, tickStart, everInvoked, cleared,
                   written, sawWritten, lastOp, pipeVars>>

\* The child re-enters StartDaemon with FACTORY_DAEMON=1 (daemon.go:38-45,
\* 71): the same check, then runDaemon up to its first poll (daemon.go:75-80).
ChildStart(p) ==
    /\ At(p, "start")
    /\ IF AlreadyRunning
       THEN /\ Terminate(p, IF GetDaemonPid = p THEN "refusedSelf" ELSE "refusedOther")
       ELSE /\ dpc' = [dpc EXCEPT ![p] = "poll"]
            /\ processed' = [processed EXCEPT ![p] = loadProcessed(NoMap)]
            /\ sawWritten' = [sawWritten EXCEPT ![p] = written]
            /\ UNCHANGED <<alive, foreign, sigterm, newIssues, tickStart>>
    /\ UNCHANGED <<pidFile, ledgerFile, nextPid, lpc, lchild, everInvoked, cleared,
                   written, lastOp, pipeVars>>

\* A faulty StopDaemon that leaves the pid file in place.
StopDaemonKeepsPidFile ==
    LET pid == GetDaemonPid
    IN  /\ IF pid = 0
           THEN /\ lastOp' = [op |-> "stop", ret |-> "notRunning"]
                /\ UNCHANGED <<sigterm, dpc, processed, newIssues,
                               tickStart, sawWritten>>
           ELSE /\ lastOp' = [op |-> "stop", ret |-> "ok"]
                /\ IF pid \in alive
                   THEN /\ sigterm' = sigterm \cup {pid}
                        /\ dpc' = IF pid \in foreign THEN dpc
                                  ELSE [dpc EXCEPT ![pid] = "stopping"]
                        /\ Forget(pid)
                   ELSE UNCHANGED <<sigterm, dpc, processed, newIssues,
                                    tickStart, sawWritten>>
        /\ UNCHANGED <<pidFile, ledgerFile, alive, foreign, nextPid, lpc, lchild,
                       everInvoked, cleared, written, pipeVars>>

\* daemon.go:151-170.  Signal(SIGTERM) fails for a pid that names no
\* process, and the Kill fallback then fails as well.  No handler for SIGTERM
\* is installed, so a child it was sent to executes no further statement
\* (position "stopping") until the signal ends it.
StopDaemon ==
    LET pid == GetDaemonPid
    IN  /\ IF pid = 0
           THEN /\ lastOp' = [op |-> "stop", ret |-> "notRunning"]
                /\ UNCHANGED <<pidFile, sigterm, dpc, processed, newIssues,
                               tickStart, sawWritten>>
           ELSE /\ pidFile' = 0
                /\ lastOp' = [op |-> "stop", ret |-> "ok"]
                /\ IF pid \in alive
                   THEN /\ sigterm' = sigterm \cup {pid}
                        /\ dpc' = IF pid \in foreign THEN dpc
                                  ELSE [dpc EXCEPT ![pid] = "stopping"]
                        /\ Forget(pid)
                   ELSE UNCHANGED <<sigterm, dpc, processed, newIssues,
                                    tickStart, sawWritten>>
        /\ UNCHANGED <<ledgerFile, alive, foreign, nextPid, lpc, lchild,
                       everInvoked, cleared, written, pipeVars>>

\* A faulty status that trusts the pid file without sending the null signal.
ShowStatusTrustsPidFile ==
    LET pid == GetDaemonPid
    IN  /\ lastOp' = [op |-> "status",
                      ret |-> IF pid > 0 THEN "Running" ELSE "Stopped"]
        /\ UNCHANGED <<pidFile, ledgerFile, alive, foreign, nextPid, sigterm, lpc,
                       lchild, dpc, processed, newIssues, tickStart,
                       everInvoked, cleared, written, sawWritten, pipeVars>>

\* daemon.go:193-199 (the table of processed issues is output only)
ShowStatus ==
    LET pid == GetDaemonPid
    IN  /\ lastOp' = [op |-> "status",
                      ret |-> IF pid > 0 /\ isRunning(pid) THEN "Running" ELSE "Stopped"]
        /\ UNCHANGED <<pidFile, ledgerFile, alive, foreign, nextPid, sigterm, lpc,
                       lchild, dpc, processed, newIssues, tickStart,
                       everInvoked, cleared, written, sawWritten, pipeVars>>

\* A faulty clear that empties the ledger whatever key it is given.
ClearProcessedAll(issueKey) ==
    /\ ledgerFile' = FileOf(NoMap)
    /\ cleared' = TRUE
    /\ written' = {}
    /\ sawWritten' = [p \in PIDs |-> {}]
    /\ lastOp' = [op |-> "clear", ret |-> issueKey]
    /\ UNCHANGED <<pidFile, alive, foreign, nextPid, sigterm, lpc, lchild, dpc,
                   processed, newIssues, tickStart, everInvoked, pipeVars>>

\* daemon.go:229-239, run by `factory clear [KEY]` in a process of its own;
\* key 0 is "".
ClearProcessed(issueKey) ==
    LET mem == loadProcessed(NoMap)
    IN  /\ ledgerFile' = FileOf(IF issueKey = 0 THEN NoMap ELSE Delete(mem, issueKey))
        /\ cleared' = TRUE
        /\ written' = IF issueKey = 0 THEN {} ELSE written \ {issueKey}
        /\ sawWritten' = [p \in PIDs |->
                             IF issueKey = 0 THEN {} ELSE sawWritten[p] \ {issueKey}]
        /\ lastOp' = [op |-> "clear", ret |-> issueKey]
        /\ UNCHANGED <<pidFile, alive, foreign, nextPid, sigterm, lpc, lchild, dpc,
                       processed, newIssues, tickStart, everInvoked, pipeVars>>

\* ---------------------------------------------------------- poll loop
\* Lists GetAssignedIssues may return (keys only): a search result names an
\* issue once.
IssueLists ==
    {s \in UNION {[1..n -> Keys] : n \in 0..MaxList} :
        \A i \in DOMAIN s, j \in DOMAIN s : i # j => s[i] # s[j]}

\* A faulty filter that keeps every listed issue.
FilterNewKeepsAll(list, mem) == list

\* daemon.go:118-124
FilterNew(list, mem) == SelectSeq(list, LAMBDA k : k \notin DOMAIN mem)

\* A faulty loop that starts a poll on every tick of the ticker, whether or
\* not the poll before it has returned.
pollOnEveryTick(p) ==
    /\ dpc[p] \in Polling /\ p \in alive /\ p \notin foreign
    /\ \/ UNCHANGED <<dpc, newIssues, tickStart>>
       \/ \E list \in IssueLists :
             LET new == FilterNew(list, processed[p])
             IN  IF new = <<>>
                 THEN UNCHANGED <<dpc, newIssues, tickStart>>
                 ELSE /\ newIssues' = [newIssues EXCEPT ![p] = new]
                      /\ tickStart' = [tickStart EXCEPT ![p] = DOMAIN processed[p]]
                      /\ dpc' = [dpc EXCEPT ![p] = "loop"]
    /\ UNCHANGED <<pidFile, ledgerFile, alive, foreign, nextPid, sigterm, lpc,
                   lchild, processed, everInvoked, cleared, written, sawWritten,
                   lastOp, pipeVars>>

\* Lists in which the tracker names an issue more than once are included.
AnyLists == UNION {[1..n -> Keys] : n \in 0..MaxList}

\* A faulty poll that saves the ledger also when it found nothing to do.
pollSavesAnyway(p, lists) ==
    /\ At(p, "poll")
    /\ \/ /\ ledgerFile' = FileOf(processed[p])
          /\ UNCHANGED <<dpc, newIssues, tickStart>>
       \/ \E list \in lists :
             LET new == FilterNew(list, processed[p])
             IN  IF new = <<>>
                 THEN /\ ledgerFile' = FileOf(processed[p])
                      /\ UNCHANGED <<dpc, newIssues, tickStart>>
                 ELSE /\ newIssues' = [newIssues EXCEPT ![p] = new]
                      /\ tickStart' = [tickStart EXCEPT ![p] = DOMAIN processed[p]]
                      /\ dpc' = [dpc EXCEPT ![p] = "loop"]
                      /\ UNCHANGED ledgerFile
    /\ UNCHANGED <<pidFile, alive, foreign, nextPid, sigterm, lpc,
                   lchild, processed, everInvoked, cleared, written, sawWritten,
                   lastOp, pipeVars>>

\* daemon.go:107-135: GetAssignedIssues fails, or returns one of `lists`,
\* which is filtered against `processed`; the tick ends at once when nothing
\* is new.
pollFrom(p, lists) ==
    /\ At(p, "poll")
    /\ \/ UNCHANGED <<dpc, newIssues, tickStart>>
       \/ \E list \in lists :
             LET new == FilterNew(list, processed[p])
             IN  IF new = <<>>
                 THEN UNCHANGED <<dpc, newIssues, tickStart>>
                 ELSE /\ newIssues' = [newIssues EXCEPT ![p] = new]
                      /\ tickStart' = [tickStart EXCEPT ![p] = DOMAIN processed[p]]
                      /\ dpc' = [dpc EXCEPT ![p] = "loop"]
    /\ UNCHANGED <<pidFile, ledgerFile, alive, foreign, nextPid, sigterm, lpc,
                   lchild, processed, everInvoked, cleared, written, sawWritten,
                   lastOp, pipeVars>>

\* poll with the lists of a search that names every issue once.
poll(p) == pollFrom(p, IssueLists)

\* daemon.go:138-139: ProcessIssue is called for the next new issue.
InvokeSys(p) ==
    /\ At(p, "loop")
    /\ everInvoked' = everInvoked \cup {Head(newIssues[p])}
    /\ dpc' = [dpc EXCEPT ![p] = "inflight"]
    /\ UNCHANGED <<pidFile, ledgerFile, alive, foreign, nextPid, sigterm, lpc,
                   lchild, processed, newIssues, tickStart, cleared,
                   written, sawWritten, lastOp>>

Invoke(p) == InvokeSys(p) /\ UNCHANGED pipeVars

\* daemon.go:139-145: ProcessIssue returns, the Result is put into `processed`.
FinishSys(p, r) ==
    /\ At(p, "inflight")
    /\ processed' = [processed EXCEPT ![p] = Record(@, Head(newIssues[p]), r)]
    /\ dpc' = [dpc EXCEPT ![p] = "save"]
    /\ UNCHANGED <<pidFile, ledgerFile, alive, foreign, nextPid, sigterm, lpc,
                   lchild, newIssues, tickStart, everInvoked, cleared, written,
                   sawWritten, lastOp>>

Finish(p) ==
    /\ At(p, "inflight")
    /\ \E r \in DaemonResults(Head(newIssues[p])) : FinishSys(p, r)
    /\ UNCHANGED pipeVars

\* daemon.go:30-33, 146: os.WriteFile opens processed.json with O_TRUNC ...
SaveOpen(p) ==
    /\ At(p, "save")
    /\ ledgerFile' = Truncated
    /\ dpc' = [dpc EXCEPT ![p] = "write"]
    /\ UNCHANGED <<pidFile, alive, foreign, nextPid, sigterm, lpc, lchild,
                   processed, newIssues, tickStart, everInvoked, cleared,
                   written, sawWritten, lastOp, pipeVars>>

\* A faulty save that writes the map only after the last issue of the tick.
SaveWriteAtTickEnd(p) ==
    /\ At(p, "write")
    /\ IF Tail(newIssues[p]) = <<>>
       THEN /\ ledgerFile' = FileOf(processed[p])
            /\ written' = written \cup DOMAIN processed[p]
            /\ dpc' = [dpc EXCEPT ![p] = "poll"]
            /\ newIssues' = [newIssues EXCEPT ![p] = <<>>]
            /\ tickStart' = [tickStart EXCEPT ![p] = {}]
       ELSE /\ dpc' = [dpc EXCEPT ![p] = "loop"]
            /\ newIssues' = [newIssues EXCEPT ![p] = Tail(@)]
            /\ UNCHANGED <<ledgerFile, written, tickStart>>
    /\ UNCHANGED <<pidFile, alive, foreign, nextPid, sigterm, lpc, lchild,
                   processed, everInvoked, cleared, sawWritten, lastOp>>

\* A faulty daemon that returns from runDaemon when its first tick with new
\* issues has ended.
SaveWriteThenReturn(p) ==
    /\ At(p, "write")
    /\ ledgerFile' = FileOf(processed[p])
    /\ written' = written \cup DOMAIN processed[p]
    /\ IF Tail(newIssues[p]) = <<>>
       THEN /\ dpc' = [dpc EXCEPT ![p] = "dead"]
            /\ alive' = alive \ {p}
            /\ newIssues' = [newIssues EXCEPT ![p] = <<>>]
            /\ tickStart' = [tickStart EXCEPT ![p] = {}]
       ELSE /\ dpc' = [dpc EXCEPT ![p] = "loop"]
            /\ newIssues' = [newIssues EXCEPT ![p] = Tail(@)]
            /\ UNCHANGED <<tickStart, alive>>
    /\ UNCHANGED <<pidFile, foreign, nextPid, sigterm, lpc, lchild,
                   processed, everInvoked, cleared, sawWritten, lastOp>>

\* ... and then writes the whole map; the loop goes on to the next new issue
\* or the tick ends (daemon.go:138, 147-148).
SaveWriteSys(p) ==
    /\ At(p, "write")
    /\ ledgerFile' = FileOf(processed[p])
    /\ written' = written \cup DOMAIN processed[p]
    /\ IF Tail(newIssues[p]) = <<>>
       THEN /\ dpc' = [dpc EXCEPT ![p] = "poll"]
            /\ newIssues' = [newIssues EXCEPT ![p] = <<>>]
            /\ tickStart' = [tickStart EXCEPT ![p] = {}]
       ELSE /\ dpc' = [dpc EXCEPT ![p] = "loop"]
            /\ newIssues' = [newIssues EXCEPT ![p] = Tail(@)]
            /\ UNCHANGED tickStart
    /\ UNCHANGED <<pidFile, alive, foreign, nextPid, sigterm, lpc, lchild,
                   processed, everInvoked, cleared, sawWritten, lastOp>>

SaveWrite(p) == SaveWriteSys(p) /\ UNCHANGED pipeVars

\* ------------------------------------------------------- environment
\* The daemon crashes or is killed from outside, wherever it is.
Kill(p) ==
    /\ dpc[p] \in Live
    /\ Terminate(p, "dead")
    /\ UNCHANGED <<pidFile, ledgerFile, nextPid, lpc, lchild, everInvoked, cleared,
                   written, lastOp, pipeVars>>

\* A faulty daemon that has a handler for SIGTERM and goes on polling.
DeliverIgnored(p) ==
    /\ p \in sigterm
    /\ sigterm' = sigterm \ {p}
    /\ dpc' = IF p \in foreign THEN dpc ELSE [dpc EXCEPT ![p] = "poll"]
    /\ UNCHANGED <<pidFile, ledgerFile, alive, foreign, nextPid, lpc, lchild,
                   processed, newIssues, tickStart, everInvoked, cleared,
                   written, sawWritten, lastOp, pipeVars>>

\* A pending SIGTERM ends its target (no handler is installed).
Deliver(p) ==
    /\ p \in sigterm
    /\ Terminate(p, "dead")
    /\ UNCHANGED <<pidFile, ledgerFile, nextPid, lpc, lchild, everInvoked, cleared,
                   written, lastOp, pipeVars>>

\* The operating system gives the pid of an ended daemon to an unrelated
\* process of the same user.  The program sees a pid only through the pid
\* file, so only the pid the file names is followed.
Reuse(p) ==
    /\ dpc[p] \in Exited
    /\ pidFile = p
    /\ p \notin alive
    /\ alive' = alive \cup {p}
    /\ foreign' = foreign \cup {p}
    /\ UNCHANGED <<pidFile, ledgerFile, nextPid, sigterm, lpc, lchild, dpc,
                   processed, newIssues, tickStart, everInvoked, cleared,
                   written, sawWritten, lastOp, pipeVars>>

\* ------------------------------------------------------ specifications
PipeIdle ==
    /\ cfg = [UseACLI |-> FALSE, AutoTransition |-> FALSE]
    /\ ppc = "idle"
    /\ issue = [Type |-> "", Status |-> ""]
    /\ calls = <<>>
    /\ result = NewResult(0)
    /\ claude = "none"
    /\ waiter = "none"

SysInit ==
    /\ pidFile = 0
    /\ ledgerFile = NoFile
    /\ alive = {}
    /\ foreign = {}
    /\ nextPid = 1
    /\ sigterm = {}
    /\ lpc = [l \in Launchers |-> "idle"]
    /\ lchild = [l \in Launchers |-> 0]
    /\ dpc = [p \in PIDs |-> "none"]
    /\ processed = [p \in PIDs |-> NoMap]
    /\ newIssues = [p \in PIDs |-> <<>>]
    /\ tickStart = [p \in PIDs |-> {}]
    /\ everInvoked = {}
    /\ cleared = FALSE
    /\ written = {}
    /\ sawWritten = [p \in PIDs |-> {}]
    /\ lastOp = [op |-> "none", ret |-> "none"]

Init == SysInit /\ PipeIdle

\* `factory start` run by one operator, one invocation after the other.
Operator == CHOOSE l \in Launchers : \A m \in Launchers : l <= m

Next ==
    \/ StartCheck(Operator)
    \/ StartSpawn(Operator)
    \/ StartWrite(Operator)
    \/ StartExit(Operator)
    \/ \E p \in PIDs : ChildStart(p)
    \/ \E p \in PIDs : poll(p)
    \/ \E p \in PIDs : Invoke(p)
    \/ \E p \in PIDs : Finish(p)
    \/ \E p \in PIDs : SaveOpen(p)
    \/ \E p \in PIDs : SaveWrite(p)
    \/ StopDaemon
    \/ \E k \in {0} \cup Keys : ClearProcessed(k)
    \/ \E p \in PIDs : Kill(p)
    \/ \E p \in PIDs : Deliver(p)

\* The daemon system with its ledger: start, restart, the poll loop, stop,
\* crash, clear; `factory start` is run by one operator.
Spec == Init /\ [][Next]_vars

\* The daemon system of Spec with `factory status` run at any moment.
StatusNext ==
    \/ Next
    \/ ShowStatus

SpecStatus == Init /\ [][StatusNext]_vars

\* The supervisor alone, with `factory start` invocations that may overlap:
\* every child that passed StartDaemon's check stays in its poll loop
\* (position "poll") until it is ended.
SupervisorNext ==
    \/ \E l \in Launchers : StartCheck(l)
    \/ \E l \in Launchers : StartSpawn(l)
    \/ \E l \in Launchers : StartWrite(l)
    \/ \E l \in Launchers : StartExit(l)
    \/ \E p \in PIDs : ChildStart(p)
    \/ StopDaemon
    \/ ShowStatus
    \/ \E p \in PIDs : Kill(p)
    \/ \E p \in PIDs : Deliver(p)
    \/ \E p \in PIDs : Reuse(p)

SpecSupervisor == Init /\ [][SupervisorNext]_vars

PipeInit ==
    /\ SysInit
    /\ cfg \in [UseACLI : BOOLEAN, AutoTransition : BOOLEAN]
    /\ ppc = "idle"
    /\ issue = [Type |-> "", Status |-> ""]
    /\ calls = <<>>
    /\ result = NewResult(0)
    /\ claude = "none"
    /\ waiter = "none"

PipeNext ==
    \/ \E key \in Keys : PBegin(key) /\ UNCHANGED sysVars
    \/ PFetch /\ UNCHANGED sysVars
    \/ PValidate /\ UNCHANGED sysVars
    \/ PGitInit /\ UNCHANGED sysVars
    \/ PCreateBranch /\ UNCHANGED sysVars
    \/ PClaude /\ UNCHANGED sysVars
    \/ PHasChanges /\ UNCHANGED sysVars
    \/ PCommitAndPush /\ UNCHANGED sysVars
    \/ PCreatePR /\ UNCHANGED sysVars
    \/ PReport /\ UNCHANGED sysVars
    \/ ClaudeDies /\ UNCHANGED sysVars
    \/ WaiterSends /\ UNCHANGED sysVars

SpecPipeline == PipeInit /\ [][PipeNext]_vars

\* ------------------------------------------------- runs of ProcessIssue
\* ProcessIssue has returned to its caller: its variables are gone, and the
\* command of the finished run is followed no further.
PipeReset ==
    /\ ppc' = "idle"
    /\ issue' = [Type |-> "", Status |-> ""]
    /\ calls' = <<>>
    /\ result' = NewResult(0)
    /\ claude' = "none"
    /\ waiter' = "none"
    /\ UNCHANGED cfg

\* daemon.go:138-139: the daemon enters ProcessIssue for the next new issue.
RunInvoke(p) ==
    /\ ppc = "idle"
    /\ InvokeSys(p)
    /\ PBegin(Head(newIssues[p]))

\* daemon.go:139-145: ProcessIssue has returned its Result to poll, which puts
\* it into `processed`.
RunFinish(p) ==
    /\ ppc = "done"
    /\ FinishSys(p, result)
    /\ ppc' = "returned"
    /\ UNCHANGED <<claude, waiter, cfg, issue, calls, result>>

\* daemon.go:146 with saveProcessed: the write of processed.json ends the
\* loop body.
RunSaveWrite(p) ==
    /\ SaveWriteSys(p)
    /\ PipeReset

\* A faulty exit code that reports success whatever the Result says.
ExitCodeAlwaysZero(r) == "exit 0"

\* main.go:53-56: os.Exit(1) when result.Status is not "completed"; main
\* returns (exit code 0) otherwise.
ExitCode(r) == IF r.Status # "completed" THEN "exit 1" ELSE "exit 0"

\* main.go:42-53: `factory trigger KEY` enters ProcessIssue(cfg, KEY) in a
\* process of its own; nothing is looked at but the configuration.
TriggerBegin(key) ==
    /\ PBegin(key)
    /\ everInvoked' = everInvoked \cup {key}
    /\ UNCHANGED <<pidFile, ledgerFile, alive, foreign, nextPid, sigterm, lpc,
                   lchild, dpc, processed, newIssues, tickStart, cleared,
                   written, sawWritten, lastOp>>

\* main.go:53-56: ProcessIssue returns one of its terminal Results; the
\* command exits with 1 when the Result is not completed, and nothing else is
\* done with the Result.
Trigger(key) ==
    /\ ppc = "fetch" /\ result.IssueKey = key
    /\ \E code \in {ExitCode(r) : r \in TerminalResults(key)} :
          lastOp' = [op |-> "trigger", ret |-> code]
    /\ PipeReset
    /\ UNCHANGED <<pidFile, ledgerFile, alive, foreign, nextPid, sigterm, lpc,
                   lchild, dpc, processed, newIssues, tickStart, everInvoked,
                   cleared, written, sawWritten>>

\* A daemon is running: `factory start` has returned, its child has passed
\* StartDaemon's check, loaded the ledger (no file yet) and is about to poll.
RunInit ==
    LET d == CHOOSE p \in PIDs : \A q \in PIDs : p <= q
    IN  /\ pidFile = d
        /\ ledgerFile = NoFile
        /\ alive = {d}
        /\ foreign = {}
        /\ nextPid = d + 1
        /\ sigterm = {}
        /\ lpc = [l \in Launchers |-> "idle"]
        /\ lchild = [l \in Launchers |-> 0]
        /\ dpc = [p \in PIDs |-> IF p = d THEN "poll" ELSE "none"]
        /\ processed = [p \in PIDs |-> NoMap]
        /\ newIssues = [p \in PIDs |-> <<>>]
        /\ tickStart = [p \in PIDs |-> {}]
        /\ everInvoked = {}
        /\ cleared = FALSE
        /\ written = {}
        /\ sawWritten = [p \in PIDs |-> {}]
        /\ lastOp = [op |-> "none", ret |-> "none"]
        /\ cfg \in [UseACLI : BOOLEAN, AutoTransition : BOOLEAN]
        /\ ppc = "idle"
        /\ issue = [Type |-> "", Status |-> ""]
        /\ calls = <<>>
        /\ result = NewResult(0)
        /\ claude = "none"
        /\ waiter = "none"

RunNext ==
    \/ \E p \in PIDs : poll(p)
    \/ \E p \in PIDs : RunInvoke(p)
    \/ PFetch /\ UNCHANGED sysVars
    \/ PValidate /\ UNCHANGED sysVars
    \/ PGitInit /\ UNCHANGED sysVars
    \/ PCreateBranch /\ UNCHANGED sysVars
    \/ PClaude /\ UNCHANGED sysVars
    \/ PHasChanges /\ UNCHANGED sysVars
    \/ PCommitAndPush /\ UNCHANGED sysVars
    \/ PCreatePR /\ UNCHANGED sysVars
    \/ PReport /\ UNCHANGED sysVars
    \/ \E p \in PIDs : RunFinish(p)
    \/ \E p \in PIDs : SaveOpen(p)
    \/ \E p \in PIDs : RunSaveWrite(p)

\* The poll ticks of a daemon that is left alone, with every ProcessIssue
\* call followed collaborator call by collaborator call.
SpecRun == RunInit /\ [][RunNext]_vars

TriggerNext ==
    \/ \E p \in PIDs : poll(p)
    \/ \E p \in PIDs : Invoke(p)
    \/ \E p \in PIDs : Finish(p)
    \/ \E p \in PIDs : SaveOpen(p)
    \/ \E p \in PIDs : SaveWrite(p)
    \/ \E key \in Keys : TriggerBegin(key)
    \/ \E key \in Keys : Trigger(key)

\* The poll ticks of a daemon that is left alone, and `factory trigger` runs
\* beside it.
SpecTrigger == RunInit /\ [][TriggerNext]_vars

\* main.go:42-53: `factory trigger KEY`, configured, enters ProcessIssue(cfg, KEY).
RunTrigger(key) ==
    /\ lastOp.op = "none"
    /\ PBegin(key)
    /\ everInvoked' = everInvoked \cup {key}
    /\ lastOp' = [op |-> "trigger", ret |-> "running"]
    /\ UNCHANGED <<pidFile, ledgerFile, alive, foreign, nextPid, sigterm, lpc,
                   lchild, dpc, processed, newIssues, tickStart, cleared,
                   written, sawWritten>>

\* main.go:53-56: ProcessIssue has returned its Result and the command ends.
RunTriggerExit ==
    /\ ppc = "done"
    /\ lastOp' = [op |-> "trigger", ret |-> ExitCode(result)]
    /\ ppc' = "exited"
    /\ UNCHANGED <<pidFile, ledgerFile, alive, foreign, nextPid, sigterm, lpc,
                   lchild, dpc, processed, newIssues, tickStart, everInvoked,
                   cleared, written, sawWritten, cfg, issue, calls, result, claude,
                   waiter>>

TriggerRunNext ==
    \/ \E key \in Keys : RunTrigger(key)
    \/ PFetch /\ UNCHANGED sysVars
    \/ PValidate /\ UNCHANGED sysVars
    \/ PGitInit /\ UNCHANGED sysVars
    \/ PCreateBranch /\ UNCHANGED sysVars
    \/ PClaude /\ UNCHANGED sysVars
    \/ PHasChanges /\ UNCHANGED sysVars
    \/ PCommitAndPush /\ UNCHANGED sysVars
    \/ PCreatePR /\ UNCHANGED sysVars
    \/ PReport /\ UNCHANGED sysVars
    \/ RunTriggerExit

\* One `factory trigger KEY` command, from its start to its exit, with its
\* ProcessIssue call followed collaborator call by collaborator call.
SpecTriggerRun == PipeInit /\ [][TriggerRunNext]_vars

DaemonNext ==
    \/ \E p \in PIDs : poll(p)
    \/ \E p \in PIDs : Invoke(p)
    \/ \E p \in PIDs : Finish(p)
    \/ \E p \in PIDs : SaveOpen(p)
    \/ \E p \in PIDs : SaveWrite(p)

\* A daemon that is left alone and whose every call returns: ProcessIssue
\* returns (its collaborators do, and runClaude is bounded by its timer) and
\* saveProcessed runs to its end.
DaemonFairness ==
    \A p \in PIDs :
        /\ WF_vars(Invoke(p))
        /\ WF_vars(Finish(p))
        /\ WF_vars(SaveOpen(p))
        /\ WF_vars(SaveWrite(p))

SpecDaemon == RunInit /\ [][DaemonNext]_vars /\ DaemonFairness

\* The daemon system of Spec in which a signal that was sent is delivered:
\* the kernel ends a process with a pending SIGTERM and no handler.
SpecStop == Init /\ [][Next]_vars /\ \A p \in PIDs : WF_vars(Deliver(p))

DuplicatesNext ==
    \/ \E p \in PIDs : pollFrom(p, AnyLists)
    \/ \E p \in PIDs : Invoke(p)
    \/ \E p \in PIDs : Finish(p)
    \/ \E p \in PIDs : SaveOpen(p)
    \/ \E p \in PIDs : SaveWrite(p)

\* The poll ticks of a daemon that is left alone, with a tracker whose list
\* may name an issue more than once.
SpecDuplicates == RunInit /\ [][DuplicatesNext]_vars

\* ------------------------------------------------------------- claims
\* C1: a poll tick calls ProcessIssue for no key that is in `processed` when
\* the tick starts, whether the record says completed or failed: while a
\* tick works through its new issues, neither the issue in hand nor one still
\* to come was a key of `processed` at the start of the tick.
C1_TickSkipsLedgerKeys ==
    \A p \in PIDs :
        dpc[p] \in {"loop", "inflight", "save", "write"} =>
            \A i \in DOMAIN newIssues[p] : newIssues[p][i] \notin tickStart[p]

\* C1 happens: ProcessIssue is in flight in a tick that started with a failed
\* record in `processed`.
C1_Witness ==
    \E p \in PIDs :
        /\ dpc[p] = "inflight"
        /\ \E k \in tickStart[p] :
              k \in DOMAIN processed[p] /\ processed[p][k].Status = "failed"

\* C2: for one configuration directory at most one live daemon runs the poll
\* loop at any time, whatever the interleaving of `factory start` invocations
\* (overlapping ones included), stops and crashes.
C2_AtMostOneDaemon ==
    Cardinality({p \in PIDs : dpc[p] \in Polling /\ p \in alive}) <= 1

\* C5: the child of a `factory start` that returned success is not turned away
\* by the pid file its launcher wrote for it: no child ends in StartDaemon's
\* "daemon already running" branch on reading its own pid.
C5_ChildNotRefusedByOwnPidFile ==
    \A p \in PIDs : dpc[p] # "refusedSelf"

\* C6: a StartDaemon call that finds a pid file naming a live process returns
\* "daemon already running", spawns no child and leaves the pid file as it is
\* (for a launcher: the step that leaves "idle"; for a child re-entering
\* StartDaemon: the step from "start" to the poll loop or to a refusal).
C6_LiveDaemonRefusesStart ==
    [][(pidFile > 0 /\ pidFile \in alive) =>
          /\ \A l \in Launchers :
                (lpc[l] = "idle" /\ lpc'[l] # "idle") =>
                    /\ lpc'[l] = "errRunning"
                    /\ nextPid' = nextPid
                    /\ alive' = alive
                    /\ pidFile' = pidFile
          /\ \A p \in PIDs :
                (dpc[p] = "start" /\ dpc'[p] \in {"poll", "refusedSelf", "refusedOther"}) =>
                    /\ dpc'[p] \in {"refusedSelf", "refusedOther"}
                    /\ nextPid' = nextPid
                    /\ alive' = alive \ {p}
                    /\ pidFile' = pidFile]_vars

\* C6 happens: a `factory start` has returned "daemon already running" while
\* the pid file names a daemon that is polling.
C6_Witness ==
    \E l \in Launchers :
        /\ lpc[l] = "errRunning"
        /\ pidFile > 0 /\ pidFile \in alive /\ dpc[pidFile] = "poll"

\* C7: a stale pid file (it names a daemon that has ended) never blocks a
\* start and is never shown as a running daemon: StartDaemon's check lets the
\* launcher go on to spawn a child, and ShowStatus reports "Stopped".
C7_StalePidFileNeverBlocks ==
    [][(pidFile > 0 /\ dpc[pidFile] \in Exited) =>
          /\ \A l \in Launchers :
                (lpc[l] = "idle" /\ lpc'[l] # "idle") => lpc'[l] = "spawn"
          /\ (lastOp' # lastOp /\ lastOp'.op = "status") => lastOp'.ret = "Stopped"]_vars

\* C8: StopDaemon without a pid file returns "daemon not running", signals
\* nothing and changes no file; with a pid file it sends SIGTERM to the
\* recorded pid and to no other, removes the pid file and returns success.
\* A StopDaemon step is one that sets the outcome of `factory stop` or
\* removes the pid file.
C8_StopDaemon ==
    [][(lastOp'.op = "stop" /\ (lastOp' # lastOp \/ (pidFile # 0 /\ pidFile' = 0))) =>
          IF pidFile = 0
          THEN /\ lastOp'.ret = "notRunning"
               /\ UNCHANGED <<pidFile, ledgerFile, sigterm, alive>>
          ELSE /\ lastOp'.ret = "ok"
               /\ pidFile' = 0
               /\ sigterm' = IF pidFile \in alive THEN sigterm \cup {pidFile} ELSE sigterm
               /\ UNCHANGED <<ledgerFile, alive>>]_vars

\* C8 happens: `factory stop` has returned success, the pid file is gone and
\* the SIGTERM it sent to the daemon is pending.
C8_Witness ==
    /\ lastOp = [op |-> "stop", ret |-> "ok"]
    /\ pidFile = 0
    /\ \E p \in sigterm : dpc[p] = "stopping"

\* C3: as long as nothing is cleared, daemons call ProcessIssue at most once
\* for each key, also across a restart after a daemon was ended with an issue
\* in flight: a step that enters ProcessIssue never does so for a key some
\* daemon entered it for before.
C3_AtMostOncePerKey ==
    [][~cleared =>
          \A p \in PIDs :
              (dpc[p] = "loop" /\ dpc'[p] = "inflight") =>
                  Head(newIssues[p]) \notin everInvoked]_vars

\* C4: once saveProcessed has written a key's record, no later daemon run calls
\* ProcessIssue for that key unless it was cleared in between: a daemon never
\* enters ProcessIssue for a key whose record had been written, and not
\* cleared, when it loaded the ledger.
C4_SavedNeverReprocessed ==
    [][\A p \in PIDs :
          (dpc[p] = "loop" /\ dpc'[p] = "inflight") =>
              Head(newIssues[p]) \notin sawWritten[p]]_vars

\* The stage a collaborator call belongs to: 1 fetch, 2 validate (no call),
\* 3 prepare workspace, 4 implement, 5 commit and push, 6 open change request,
\* 7 report back.
StageOf(op) ==
    CASE op \in {"execJira", "jiraRequest"} -> 1
      [] op \in {"mkdir", "git clone", "git config", "git checkout default",
                 "git pull", "git branch -a", "git checkout", "git checkout -b"} -> 3
      [] op = "claude" -> 4
      [] op \in {"git status", "git add", "git commit", "git push"} -> 5
      [] op = "CreatePR" -> 6
      [] op \in {"AddComment", "Transition"} -> 7

\* The calls a stage cannot succeed without: reading the item, the working
\* tree (directory, clone, default branch checked out and pulled, feature
\* branch checked out), the implementer, add / commit / push, the change
\* request.  `git config`, `git branch -a`, `git status` and the tracker
\* writes are not among them.
Essential ==
    {"execJira", "jiraRequest", "mkdir", "git clone", "git checkout default",
     "git pull", "git checkout", "git checkout -b", "claude", "git add",
     "git commit", "git push", "CreatePR"}

FailedCall(c) == c.op \in Essential /\ ~c.ok

\* C9: ProcessIssue runs its stages in the order fetch, validate, prepare
\* workspace, implement, commit and push, open change request, report back: the
\* stages of the calls never go down, and no call of a later stage is made
\* after a call that an earlier stage needed has failed.
C9_StagesInOrder ==
    \A i \in DOMAIN calls, j \in DOMAIN calls :
        i < j => /\ StageOf(calls[i].op) <= StageOf(calls[j].op)
                 /\ StageOf(calls[i].op) < StageOf(calls[j].op) => ~FailedCall(calls[i])

\* The name ProcessIssue gives a stage in Result.Error.
StageNames(n) ==
    CASE n = 1 -> {"fetch"}
      [] n = 2 -> {"validate"}
      [] n = 3 -> {"git", "branch"}
      [] n = 4 -> {"claude"}
      [] n = 5 -> {"push"}
      [] n = 6 -> {"pr"}
      [] OTHER -> {}

\* The first stage that failed: the stage of the first failed call, or
\* validate when every call succeeded.
FirstFailingStage ==
    LET F == {i \in DOMAIN calls : FailedCall(calls[i])}
    IN  IF F = {} THEN 2
        ELSE StageOf(calls[CHOOSE i \in F : \A k \in F : i <= k].op)

\* C10: ProcessIssue returns a terminal Result whatever its collaborators
\* return: completed exactly when CreatePR succeeded or `git status` ran and
\* showed no change, and otherwise failed with an Error that names the first
\* stage that failed and a cause.
C10_TerminalResult ==
    ppc = "done" =>
        /\ result.Status \in {"completed", "failed"}
        /\ result.Status = "completed" <=>
              \E i \in DOMAIN calls :
                  \/ calls[i].op = "CreatePR" /\ calls[i].ok
                  \/ calls[i].op = "git status" /\ calls[i].ok /\ calls[i].out = 0
        /\ result.Status = "failed" =>
              /\ Len(result.Error) = 2
              /\ result.Error[1] \in StageNames(FirstFailingStage)
              /\ result.Error[2][1] # ""

\* GetIssue has handed an Issue to ProcessIssue.
Fetched ==
    \E i \in DOMAIN calls :
        calls[i].op = "execJira" \/ (calls[i].op = "jiraRequest" /\ calls[i].ok)

\* C11: an item whose type, lower-cased, is not one of bug, task, story,
\* sub-task, or whose status, lower-cased, is one of done, closed, resolved,
\* cancelled, makes ProcessIssue return failed at stage validate (reason
\* "invalid type", or "issue is closed" for a valid type), and no call of the
\* workspace, implement, commit/push, change-request or report-back stage is
\* made.
C11_InvalidItemStopsAtValidate ==
    LET badType == ToLower(issue.Type) \notin {"bug", "task", "story", "sub-task"}
        closed == ToLower(issue.Status) \in {"done", "closed", "resolved", "cancelled"}
    IN  (Fetched /\ ppc # "validate" /\ (badType \/ closed)) =>
            /\ ppc = "done"
            /\ result.Status = "failed"
            /\ result.Error[1] = "validate"
            /\ result.Error[2] = IF badType THEN <<"invalid type", issue.Type>>
                                 ELSE <<"issue is closed", issue.Status>>
            /\ \A i \in DOMAIN calls : StageOf(calls[i].op) = 1

\* C11 happens: ProcessIssue has returned for an item of a valid type, written
\* "Bug", whose status is "Done".
C11_Witness ==
    /\ ppc = "done"
    /\ issue = [Type |-> "Bug", Status |-> "Done"]
    /\ result.Error = <<"validate", <<"issue is closed", "Done">>>>

\* C12: when `git status` shows no uncommitted change after the implement
\* stage succeeded, ProcessIssue returns completed with an empty PR URL and
\* makes no commit, push, CreatePR, AddComment or Transition call.
C12_NoChangesCompletesWithoutPR ==
    (\E i \in DOMAIN calls : calls[i].op = "git status" /\ calls[i].out = 0) =>
        /\ \E i \in DOMAIN calls : calls[i].op = "claude" /\ calls[i].ok
        /\ ppc = "done"
        /\ result.Status = "completed"
        /\ result.PRUrl = 0
        /\ result.Error = <<>>
        /\ \A i \in DOMAIN calls :
              calls[i].op \notin {"git add", "git commit", "git push", "CreatePR",
                                  "AddComment", "Transition"}

\* C12 happens: ProcessIssue has returned after the implementer succeeded and
\* `git status` ran without error and printed nothing.
C12_Witness ==
    /\ ppc = "done"
    /\ result.Status = "completed"
    /\ \E i \in DOMAIN calls : calls[i].op = "claude" /\ calls[i].ok
    /\ \E i \in DOMAIN calls :
          calls[i].op = "git status" /\ calls[i].ok /\ calls[i].out = 0

\* C13: when changes exist and commit, push and CreatePR all succeed, the
\* Result carries the URL CreatePR returned, and once the daemon has recorded
\* and saved the item, loading the ledger file yields a record for that key
\* with status completed and the same URL.
C13_UrlReachesLedger ==
    [][\A i \in DOMAIN calls :
          (calls[i].op = "CreatePR" /\ calls[i].ok) =>
              /\ result.PRUrl = calls[i].out
              /\ \A p \in PIDs :
                    (dpc[p] = "write" /\ dpc'[p] # "write" /\ p \in alive') =>
                        LET loaded == (loadProcessed(NoMap))'
                            key == result.IssueKey
                        IN  /\ result.Status = "completed"
                            /\ key \in DOMAIN loaded
                            /\ loaded[key].Status = "completed"
                            /\ loaded[key].PRUrl = calls[i].out]_vars

\* C13 happens: the ledger file holds a completed record with a PR URL.
C13_Witness ==
    /\ ledgerFile.state = "ok"
    /\ \E k \in DOMAIN ledgerFile.data :
          ledgerFile.data[k].Status = "completed" /\ ledgerFile.data[k].PRUrl \in Urls

\* C14: every ProcessIssue run that returns leaves a record of its key in the
\* ledger file, also a run started by `factory trigger`, so that a key
\* processed by trigger is not processed again by a later daemon tick: after a
\* trigger run for a key the loaded ledger has that key, and the daemon never
\* enters ProcessIssue for a key ProcessIssue was called for before.
C14_TriggerLeavesRecord ==
    [][/\ (ppc = "fetch" /\ ppc' = "idle" /\ lastOp'.op = "trigger") =>
              result.IssueKey \in DOMAIN (loadProcessed(NoMap))'
       /\ \A p \in PIDs :
              (dpc[p] = "loop" /\ dpc'[p] = "inflight") =>
                  Head(newIssues[p]) \notin everInvoked]_vars

\* C15: a failure of AddComment or Transition never changes the outcome: once
\* CreatePR has succeeded, ProcessIssue returns completed with the PR URL set
\* and an empty Error, whatever the two tracker calls return.
C15_ReportBackIsBestEffort ==
    \A i \in DOMAIN calls :
        (ppc = "done" /\ calls[i].op = "CreatePR" /\ calls[i].ok) =>
            /\ result.Status = "completed"
            /\ result.PRUrl = calls[i].out /\ result.PRUrl \in Urls
            /\ result.Error = <<>>
            /\ \E j \in DOMAIN calls : j > i /\ calls[j].op = "AddComment"

\* C15 happens: ProcessIssue has returned after CreatePR succeeded and both
\* AddComment and Transition returned an error.
C15_Witness ==
    /\ ppc = "done"
    /\ \E i \in DOMAIN calls : calls[i].op = "CreatePR" /\ calls[i].ok
    /\ \E i \in DOMAIN calls : calls[i].op = "AddComment" /\ ~calls[i].ok
    /\ \E i \in DOMAIN calls : calls[i].op = "Transition" /\ ~calls[i].ok

\* runClaude returned the timeout error and ProcessIssue has failed on it.
TimedOut ==
    /\ ppc = "done"
    /\ calls # <<>>
    /\ calls[Len(calls)] = Call("claude", FALSE, 1)

\* C16 (first part): when the 10 minute timer fires first, ProcessIssue fails
\* at stage "claude" with the timeout error and goes no further.
C16_TimeoutFailsAtClaude ==
    (\E i \in DOMAIN calls : calls[i] = Call("claude", FALSE, 1)) =>
        /\ TimedOut
        /\ result.Status = "failed"
        /\ result.Error = <<"claude", <<"timeout after 10 minutes", "">>>>

\* C16: once ProcessIssue has failed at stage "claude" on the timeout, the
\* external command is no longer running.
C16_TimedOutCommandGone ==
    TimedOut => claude = "exited"

\* C17: ClearProcessed("") leaves the ledger file empty; ClearProcessed(K)
\* removes exactly K's record from the file and leaves every other key's
\* record as it was (the record set is unchanged when K has no record).
C17_ClearRemovesExactlyKey ==
    [][\A k \in {0} \cup Keys :
          ClearProcessed(k) =>
              /\ ledgerFile'.state = "ok"
              /\ k = 0 => ledgerFile'.data = NoMap
              /\ k # 0 =>
                    /\ DOMAIN ledgerFile'.data = (DOMAIN ledgerFile.data) \ {k}
                    /\ \A j \in DOMAIN ledgerFile'.data :
                          ledgerFile'.data[j] = ledgerFile.data[j]
                    /\ k \notin DOMAIN ledgerFile.data =>
                          ledgerFile'.data = ledgerFile.data]_vars

\* C17 happens: `clear K` has removed K's record, which a daemon had saved,
\* and the file still holds the record of another key.
C17_Witness ==
    /\ lastOp.op = "clear" /\ lastOp.ret \in Keys
    /\ lastOp.ret \in everInvoked
    /\ ledgerFile.state = "ok"
    /\ lastOp.ret \notin DOMAIN ledgerFile.data
    /\ (DOMAIN ledgerFile.data) \cap written # {}

\* C18: a daemon ended at any point, also in the middle of saveProcessed,
\* loses no record saved for an earlier item: whenever no daemon is inside
\* the write of processed.json, loadProcessed yields the record of every key
\* that a save has written and no clear has removed.
C18_KillLosesNoSavedRecord ==
    (\A p \in PIDs : dpc[p] # "write") =>
        written \subseteq DOMAIN loadProcessed(NoMap)

\* The records a daemon's current tick has added to `processed`.
FinishedInTick(p) ==
    [k \in (DOMAIN processed[p]) \ tickStart[p] |-> processed[p][k]]

\* C19: within a tick the record of an item is on file before ProcessIssue
\* starts on the next one: as long as no clear command has run, whenever a
\* daemon is between two items of a tick, or has entered ProcessIssue for the
\* next one, the ledger file holds the record of every item the tick has
\* finished.
C19_SavedAfterEachItem ==
    \A p \in PIDs :
        (~cleared /\ dpc[p] \in {"loop", "inflight"}) =>
            /\ FinishedInTick(p) # NoMap => ledgerFile.state = "ok"
            /\ \A k \in DOMAIN FinishedInTick(p) :
                  /\ k \in DOMAIN ledgerFile.data
                  /\ ledgerFile.data[k] = processed[p][k]

\* C19 happens: ProcessIssue is in flight for the second item of a tick whose
\* first item is on file.
C19_Witness ==
    \E p \in PIDs :
        /\ ~cleared /\ dpc[p] = "inflight"
        /\ FinishedInTick(p) # NoMap
        /\ DOMAIN FinishedInTick(p) \subseteq DOMAIN ledgerFile.data

\* C20: ShowStatus is read-only and reports Running only for a live pid: a
\* step that leaves a new status report behind changes neither the pid file
\* nor the ledger file nor any process or daemon state, and when the report
\* is Running the pid file names a process that answers the null signal.
C20_StatusIsReadOnly ==
    [][(lastOp'.op = "status" /\ lastOp' # lastOp) =>
          /\ UNCHANGED <<pidFile, ledgerFile, alive, foreign, sigterm, nextPid,
                         dpc, processed, newIssues>>
          /\ lastOp'.ret \in {"Running", "Stopped"}
          /\ lastOp'.ret = "Running" => (pidFile > 0 /\ pidFile \in alive)]_vars

\* C20 happens: status has reported Stopped while the pid file still names a
\* daemon that was ended, with records on file.
C20_Witness ==
    /\ lastOp = [op |-> "status", ret |-> "Stopped"]
    /\ pidFile > 0 /\ pidFile \notin alive
    /\ ledgerFile.state = "ok" /\ ledgerFile.data # NoMap

\* C21: `trigger KEY` runs ProcessIssue once, for KEY, waits for it, and exits
\* with code 1 exactly when the returned Result is not completed and with code
\* 0 otherwise: the command has no exit code before ProcessIssue has returned,
\* and when it has ended its Result is a finished one for the one key it was
\* given, the item was fetched once, and the code is 1 for every status but
\* completed.
C21_TriggerExitCode ==
    /\ (lastOp.op = "trigger" /\ ppc # "exited") => lastOp.ret = "running"
    /\ ppc = "exited" =>
          /\ everInvoked = {result.IssueKey}
          /\ result.Status \in {"completed", "failed"}
          /\ lastOp.op = "trigger" /\ lastOp.ret \in {"exit 0", "exit 1"}
          /\ lastOp.ret = "exit 1" <=> result.Status # "completed"
          /\ Cardinality({i \in DOMAIN calls : calls[i].op = "jiraRequest"})
                = (IF cfg.UseACLI THEN 0 ELSE 1)

\* C21 happens: a trigger command has ended with code 1 on a failed Result.
C21_Witness ==
    /\ ppc = "exited" /\ result.Status = "failed"
    /\ lastOp = [op |-> "trigger", ret |-> "exit 1"]

\* C21 happens as well: a trigger command has ended with code 0 on a completed
\* Result that carries a PR URL.
C21_WitnessZero ==
    /\ ppc = "exited" /\ result.Status = "completed" /\ result.PRUrl \in Urls
    /\ lastOp = [op |-> "trigger", ret |-> "exit 0"]

\* C22: a failure to fetch the item makes ProcessIssue return failed at stage
\* "fetch", in REST mode and in Jira-CLI mode alike, before validation is
\* attempted: once a call that reads the item has failed, ProcessIssue has
\* returned a Result failed at "fetch".
C22_FetchFailureFailsAtFetch ==
    (\E i \in DOMAIN calls :
        calls[i].op \in {"execJira", "jiraRequest"} /\ ~calls[i].ok) =>
        /\ ppc \in {"done", "returned", "exited"}
        /\ result.Status = "failed"
        /\ result.Error # <<>> /\ result.Error[1] = "fetch"

\* The calls of workspace preparation that the claim names: ensuring the
\* clone, pulling the default branch, checking out or creating the feature
\* branch.
PrepareOps ==
    {"mkdir", "git clone", "git checkout default", "git pull",
     "git checkout", "git checkout -b"}

\* C23: when a step of workspace preparation fails, ProcessIssue returns
\* failed with stage "branch" and runClaude is never called; runClaude is
\* called only after the feature branch was checked out or created.
C23_PrepareFailureFailsAtBranch ==
    /\ (\E i \in DOMAIN calls : calls[i].op \in PrepareOps /\ ~calls[i].ok) =>
          /\ ppc \in {"done", "returned", "exited"}
          /\ result.Status = "failed"
          /\ result.Error # <<>> /\ result.Error[1] = "branch"
          /\ \A j \in DOMAIN calls : calls[j].op # "claude"
    /\ \A j \in DOMAIN calls :
          calls[j].op = "claude" =>
              \E i \in 1..(j - 1) :
                  calls[i].op \in {"git checkout", "git checkout -b"} /\ calls[i].ok

\* C24: a clear run while the daemon is alive is not lost: after
\* ClearProcessed(K), K stays off the ledger file until a ProcessIssue run for
\* K has been recorded.  A save that ends puts on record, beyond what saves
\* had written and no clear has removed since, only the item the daemon has
\* just processed.
C24_ClearedKeyStaysCleared ==
    [][\A p \in PIDs :
          (dpc[p] = "write" /\ dpc'[p] \in {"loop", "poll"}) =>
              \A k \in (DOMAIN ledgerFile'.data) \ written :
                  k = Head(newIssues[p])]_vars

\* C25: the local working tree has a single writer at all times: a daemon's
\* ProcessIssue call and the ProcessIssue call of a `factory trigger` command
\* never overlap.
C25_SingleWriter ==
    ~(/\ ppc # "idle"
      /\ \E p \in PIDs : dpc[p] = "inflight" /\ p \in alive)

\* A step of daemon p that gives it a new list of issues to work through.
TickStarts(p) ==
    /\ newIssues'[p] # <<>>
    /\ newIssues'[p] # newIssues[p]
    /\ newIssues[p] # <<>> => newIssues'[p] # Tail(newIssues[p])

\* C26: inside one daemon ticks and items are totally ordered: a tick starts
\* only when the tick before it has finished all of its items, and
\* ProcessIssue is entered only between two items, after the save of the item
\* before it, so that at most one ProcessIssue call is in progress.
C26_TicksAndItemsInOrder ==
    [][\A p \in PIDs :
          /\ TickStarts(p) => (dpc[p] = "poll" /\ newIssues[p] = <<>>)
          /\ (dpc'[p] = "inflight" /\ dpc[p] # "inflight") =>
                (dpc[p] = "loop" /\ newIssues'[p] = newIssues[p])
          /\ (dpc[p] = "inflight" /\ dpc'[p] \in Polling) =>
                dpc'[p] \in {"inflight", "save"}]_vars

\* C26 happens: a daemon has an item in flight in a tick that follows an
\* earlier tick of the same daemon.
C26_Witness ==
    \E p \in PIDs :
        /\ dpc[p] = "inflight"
        /\ tickStart[p] # {} /\ tickStart[p] \subseteq written
        /\ sawWritten[p] = {}

C28_StoppedDaemonEnds ==
    /\ \A p \in PIDs : [](p \in sigterm => dpc[p] \notin Polling)
    /\ \A p \in PIDs : (p \in sigterm) ~> (p \notin alive)

\* C28 happens: a daemon that was stopped with an issue in flight is gone,
\* and its in-flight item left no record.
C28_Witness ==
    /\ lastOp = [op |-> "stop", ret |-> "ok"]
    /\ pidFile = 0 /\ alive = {} /\ sigterm = {}
    /\ \E p \in PIDs : dpc[p] = "dead"
    /\ \E k \in everInvoked : k \notin DOMAIN loadProcessed(NoMap)

\* A ledger record is well formed: its status is completed or failed, it has
\* a PR URL only when completed and an error text exactly when failed.
WellFormedRecord(rec) ==
    /\ rec.Status \in {"completed", "failed"}
    /\ rec.PRUrl # 0 => rec.Status = "completed"
    /\ rec.Error # <<>> <=> rec.Status = "failed"

\* C29: every record of the ledger, in a daemon's memory and on file, is well
\* formed, never has status started, and belongs to one key of the map.
C29_RecordsWellFormed ==
    /\ \A p \in PIDs : \A k \in DOMAIN processed[p] :
          k \in Keys /\ WellFormedRecord(processed[p][k])
    /\ \A k \in DOMAIN ledgerFile.data :
          k \in Keys /\ WellFormedRecord(ledgerFile.data[k])
    /\ \A k \in DOMAIN loadProcessed(NoMap) :
          WellFormedRecord(loadProcessed(NoMap)[k])

\* C29 happens: the file holds a completed record with a PR URL and a failed
\* record with its error text.
C29_Witness ==
    /\ ledgerFile.state = "ok"
    /\ \E k \in DOMAIN ledgerFile.data :
          ledgerFile.data[k].Status = "completed" /\ ledgerFile.data[k].PRUrl \in Urls
    /\ \E k \in DOMAIN ledgerFile.data :
          /\ ledgerFile.data[k].Status = "failed"
          /\ ledgerFile.data[k].Error # <<>>
          /\ ledgerFile.data[k].Error[1] = "claude"

\* C30: within one tick ProcessIssue is called at most once for a key, also
\* when the list of GetAssignedIssues names the key more than once: a daemon
\* never enters ProcessIssue for a key the same tick has already processed.
C30_OncePerKeyInTick ==
    [][\A p \in PIDs :
          (dpc[p] = "loop" /\ dpc'[p] = "inflight") =>
              Head(newIssues[p]) \notin (DOMAIN processed[p]) \ tickStart[p]]_vars

\* C31: a poll in which GetAssignedIssues fails, or in which every returned
\* key is already in the ledger, calls ProcessIssue for no item and leaves
\* the in-memory ledger and the ledger file unchanged.  No step of poll up to
\* its loop changes the ledger or enters ProcessIssue; a daemon goes on to
\* the loop only with a list of keys that are not in `processed`, and stays
\* at the head of runDaemon's loop, with nothing to process, otherwise.
C31_IdlePollChangesNothing ==
    [][\A p \in PIDs :
          poll(p) =>
              /\ UNCHANGED <<processed, ledgerFile, everInvoked>>
              /\ dpc'[p] \in {"poll", "loop"}
              /\ dpc'[p] = "loop" =>
                    /\ newIssues'[p] # <<>>
                    /\ \A i \in DOMAIN newIssues'[p] :
                          newIssues'[p][i] \notin DOMAIN processed[p]
              /\ dpc'[p] = "poll" => newIssues'[p] = <<>>]_vars

\* C31 happens: a daemon is at the head of its loop with every key in its
\* ledger, so that whatever the tracker lists, nothing is new, while the file
\* has lost a record to a clear.
C31_Witness ==
    \E p \in PIDs :
        /\ dpc[p] = "poll" /\ p \in alive
        /\ DOMAIN processed[p] = Keys
        /\ ledgerFile.state = "ok"
        /\ DOMAIN ledgerFile.data # Keys

\* C32: after runClaude has returned, on the normal path and on the timeout
\* path alike, the goroutine that waits for the external command is not left
\* blocked on its send on `done`.
C32_WaiterNotLeftBlocked ==
    (\E i \in DOMAIN calls : calls[i].op = "claude") =>
        waiter \in {"running", "done"}
=============================================================================
